---- MODULE Spec2Model ----
(***************************************************************************)
(* Model of the Arcade2D Phaser scene (PhaserScene in                      *)
(* src/src/tabs/ArcadeTwod/index.tsx): preload, create and the per-frame   *)
(* update loop, with the keyboard and pointer listeners that run between   *)
(* frames, and of the GameCanvas tab component that mounts and unmounts    *)
(* the game around it.                                                     *)
(*                                                                         *)
(* Conventions.                                                            *)
(*  - JavaScript arrays are 0-based; sequences here are 1-based, so the    *)
(*    handle of the object with id i is phaserGameObjects[i + 1].          *)
(*  - sourceGameObjects / sourceAudioClips are references to the arrays    *)
(*    owned by the GameObject / AudioClip classes, so one variable models  *)
(*    both the class-level array and the scene's reference to it.          *)
(*  - Rotations are counted in quarter turns: Math.PI is 2.                *)
(*  - A packed 32-bit colour is written as its four bytes, most            *)
(*    significant first.  Alpha is kept in units of 1/255.                 *)
(*  - delayedKeyUpEvents is a Set of closures, each of which deletes one   *)
(*    key; running all of them deletes the set of their keys, so the set   *)
(*    of closures is modelled by the set of keys they delete.              *)
(*  - Pointer moves are given in the local space of the handle they hit,   *)
(*    whose origin is the top-left corner of the handle's bounding box.    *)
(***************************************************************************)
EXTENDS Integers, Sequences, FiniteSets, TLC

\* ------------------------------------------------------------------------
\* Bounds
\* ------------------------------------------------------------------------
MaxFrames == 3
MaxExternal == 1

\* Pointer moves visit the local points with even coordinates up to 2 * HitGrid.
HitGrid == 10

LocalCoordinates == {2 * k : k \in 0..HitGrid}

\* ------------------------------------------------------------------------
\* Value domains
\* ------------------------------------------------------------------------
Keys == {"a", "b"}

Kinds == {"rectangle", "circle", "triangle", "sprite", "text"}

ShapeKinds == {"rectangle", "circle", "triangle"}

HalfTurn == 2

UserUpdateError == "Runtime Error: Error in user update function"

GameObjectError == "Runtime Error: Cannot create GameObject in update_loop"

AudioUpdateError == "Runtime Error: Cannot create Audio in update_loop"

AudioLoadError == "Runtime Error: Cannot load audio file"

UserDebugLine == "debug"

\* ------------------------------------------------------------------------
\* Logical model (GameObject / AudioClip interface)
\* ------------------------------------------------------------------------
NewGameObject(id, kind) ==
  [id |-> id, kind |-> kind,
   position |-> <<1, 2>>, rotation |-> 1, scale |-> <<2, 1>>,
   color |-> <<255, 0, 0, 128>>, flip |-> <<FALSE, FALSE>>,
   text |-> IF kind = "text" THEN "hi" ELSE "",
   url |-> IF kind = "sprite" THEN "img" ELSE "",
   transformDirty |-> TRUE, renderDirty |-> TRUE,
   shouldBringToTop |-> FALSE, phaserGameObject |-> 0,
   hitboxActive |-> TRUE,
   shape |-> IF kind = "circle" THEN [radius |-> 10]
             ELSE IF kind = "rectangle" THEN [width |-> 20, height |-> 10]
             ELSE IF kind = "triangle"
                  THEN [x1 |-> 0, y1 |-> 0, x2 |-> 20, y2 |-> 0, x3 |-> 0, y3 |-> 20]
                  ELSE [width |-> 20, height |-> 10]]

NewAudioClip(id, url) ==
  [id |-> id, url |-> url, dirty |-> FALSE, shouldPlay |-> FALSE]

\* The initial value of the two flags is set by the GameObject class; one scene
\* has an object that starts with both clear, and with its hitbox switched off.
InitialScenes ==
  {<<NewGameObject(0, k)>> : k \in Kinds}
    \cup {<<NewGameObject(0, "triangle"), NewGameObject(1, "rectangle")>>,
          <<NewGameObject(0, "sprite"), NewGameObject(1, "sprite")>>,
          <<[NewGameObject(0, "rectangle") EXCEPT !.transformDirty = FALSE,
                                                  !.renderDirty = FALSE,
                                                  !.hitboxActive = FALSE]>>}

InitialClips == <<NewAudioClip(0, "snd"), NewAudioClip(1, "snd")>>

AudioUrls == {"snd"}

hasTransformUpdates(o) == o.transformDirty

hasRenderUpdates(o) == o.renderDirty

updatedTransform(o) == [o EXCEPT !.transformDirty = FALSE]

updatedRender(o) == [o EXCEPT !.renderDirty = FALSE, !.shouldBringToTop = FALSE]

\* ------------------------------------------------------------------------
\* User code: one mutation of the logical model
\* ------------------------------------------------------------------------
ObjectOps == {"position", "flip", "top"}

ClipOps == {"play", "stop"}

Mutations(objs, clips) ==
  {[type |-> "none", target |-> 0]}
    \cup {[type |-> t, target |-> i] : t \in ObjectOps, i \in 1..Len(objs)}
    \cup {[type |-> t, target |-> i] : t \in ClipOps, i \in 1..Len(clips)}

ApplyToObject(o, type) ==
  CASE type = "position" ->
         [o EXCEPT !.position = IF @ = <<1, 2>> THEN <<3, 4>> ELSE <<1, 2>>,
                   !.transformDirty = TRUE]
    [] type = "flip" ->
         [o EXCEPT !.flip = <<@[1], ~@[2]>>, !.renderDirty = TRUE]
    [] type = "top" ->
         [o EXCEPT !.shouldBringToTop = TRUE, !.renderDirty = TRUE]

ApplyToClip(c, type) ==
  [c EXCEPT !.shouldPlay = (type = "play"), !.dirty = TRUE]

MutateObjects(objs, m) ==
  IF m.type \in ObjectOps
  THEN [objs EXCEPT ![m.target] = ApplyToObject(@, m.type)]
  ELSE objs

MutateClips(clips, m) ==
  IF m.type \in ClipOps
  THEN [clips EXCEPT ![m.target] = ApplyToClip(@, m.type)]
  ELSE clips

\* ------------------------------------------------------------------------
\* Backend handles
\* ------------------------------------------------------------------------
NewHandle(kind, position, text) ==
  [kind |-> kind, position |-> position, rotation |-> 0, scale |-> <<1, 1>>,
   color |-> <<0, 255, 255, 255>>, alpha |-> 255, flip |-> <<FALSE, FALSE>>,
   text |-> text]

GetColor32(red, green, blue, alpha) == <<alpha, red, green, blue>>

NoFrame ==
  [userCalled |-> FALSE, userThrew |-> FALSE, keysSeen |-> {}, tapped |-> {},
   calls |-> <<>>, rotations |-> <<>>, dirtyT |-> {}, dirtyR |-> {}, missing |-> {},
   pushedT |-> {}, pushedR |-> {}, restacked |-> {}, dirtyA |-> {}, audio |-> <<>>,
   plays |-> 0, stops |-> 0,
   startError |-> FALSE, startRerender |-> FALSE,
   loopSeen |-> 0, pointerSeen |-> <<0, 0>>, stateSeen |-> <<>>,
   completed |-> FALSE]

\* pointerPosition is declared without an initial value.
NoPosition == <<>>

NoPointerEvent == [target |-> 0, x |-> 0, y |-> 0, hit |-> FALSE]

\* this.input.activePointer, in tenths of a pixel: the pointer rests at (1.5, 2.7).
ActivePointer == <<15, 27>>

\* Math.trunc of a coordinate given in tenths.
Trunc(v) == IF v >= 0 THEN v \div 10 ELSE -((-v) \div 10)

SamplePointer(p) == <<Trunc(p[1]), Trunc(p[2])>>

\* The user program pushes the loop count and the pointer position it reads
\* onto the state array it is handed.
UserStateAfter(state, loop, pointer) ==
  Append(state, [loop |-> loop, pointer |-> pointer])

VARIABLES
  status,               \* lifecycle of the scene instance
  DEBUG,                \* the DEBUG switch imported from ./functions
  missingAudio,         \* audio keys absent from the loader cache
  gameObjects,          \* GameObject array (= this.sourceGameObjects)
  audioClips,           \* AudioClip array (= this.sourceAudioClips)
  phaserGameObjects,    \* this.phaserGameObjects
  phaserAudioClips,     \* this.phaserAudioClips
  corsAssets,           \* this.corsAssets, in insertion order
  loadRequests,         \* calls made on this.load, in order
  children,             \* the scene's display list, back to front
  rerenderGameObjects,  \* this.rerenderGameObjects
  delayedKeyUpEvents,   \* this.delayedKeyUpEvents
  runtimeError,         \* this.runtimeError
  debugLogText,         \* this.debugLogText
  debugLogArray,        \* module-level debugLogArray
  inputKeysDown,        \* module-level inputKeysDown
  loopCount,            \* loopCount[0]
  playing,              \* ids of the sound handles that are playing
  hostException,        \* an exception left create() or update()
  tapped,               \* per key: pressed / pressed then released since the last frame
  external,             \* number of mutations made outside the update callback
  built,                \* the gameObjects array as create() saw it
  frame,                \* what the most recent update() did
  userGameStateArray,   \* module-level userGameStateArray
  pointerPosition,      \* module-level pointerPosition
  hitAreas,             \* per handle: the hit area given to setInteractive
  pointerOverGameObjectsId, \* module-level pointerOverGameObjectsId
  pointerEvent,         \* the most recent pointer move handled by the scene
  gameConfig,           \* context.result.value.gameConfig is present
  loadedGame,           \* context.result.value.loadedGame
  mounted,              \* a GameCanvas component is mounted
  stateGame,            \* this.state.game of the mounted component is defined
  games,                \* number of Phaser.Game objects constructed
  tornDown,             \* componentWillUnmount ran on the component that owns the game
  keysHeld              \* the keyboard: keys whose most recent event is a keydown

vars ==
  <<status, DEBUG, missingAudio, gameObjects, audioClips, phaserGameObjects,
    phaserAudioClips, corsAssets, loadRequests, children, rerenderGameObjects,
    delayedKeyUpEvents, runtimeError, debugLogText, debugLogArray,
    inputKeysDown, loopCount, playing, hostException, tapped, external, built,
    frame, userGameStateArray, pointerPosition, hitAreas,
    pointerOverGameObjectsId, pointerEvent, gameConfig, loadedGame, mounted,
    stateGame, games, tornDown, keysHeld>>

pointerVars == <<pointerOverGameObjectsId, pointerEvent>>

hostVars == <<gameConfig, loadedGame, mounted, stateGame, games, tornDown>>

\* Everything of the scene and of the module that exists before init() runs.
SceneFields ==
  /\ DEBUG \in BOOLEAN
  /\ missingAudio \in SUBSET AudioUrls
  /\ gameObjects \in InitialScenes
  /\ audioClips = InitialClips
  /\ phaserGameObjects = <<>>
  /\ phaserAudioClips = <<>>
  /\ corsAssets = <<>>
  /\ loadRequests = <<>>
  /\ children = <<>>
  /\ rerenderGameObjects = TRUE
  /\ delayedKeyUpEvents = {}
  /\ runtimeError = FALSE
  /\ debugLogText = [exists |-> FALSE, text |-> <<>>, color |-> "white"]
  /\ debugLogArray = <<>>
  /\ inputKeysDown = {}
  /\ loopCount = 0
  /\ playing = {}
  /\ hostException = FALSE
  /\ tapped = [k \in Keys |-> "idle"]
  /\ external = 0
  /\ built = <<>>
  /\ frame = NoFrame
  /\ userGameStateArray = <<>>
  /\ pointerPosition = NoPosition
  /\ hitAreas = <<>>
  /\ pointerOverGameObjectsId = {}
  /\ pointerEvent = NoPointerEvent
  /\ tornDown = FALSE
  /\ keysHeld = {}

\* The state right after componentDidMount has constructed the game.
Init ==
  /\ SceneFields
  /\ status = "constructed"
  /\ gameConfig = TRUE
  /\ loadedGame = TRUE
  /\ mounted = TRUE
  /\ stateGame = TRUE
  /\ games = 1

\* ------------------------------------------------------------------------
\* init() and preload()
\* ------------------------------------------------------------------------
SceneInit ==
  /\ status = "constructed"
  /\ status' = "initialised"
  /\ phaserAudioClips' = <<>>
  /\ corsAssets' = <<>>
  /\ UNCHANGED <<DEBUG, missingAudio, gameObjects, audioClips, phaserGameObjects,
                 loadRequests, children, rerenderGameObjects, delayedKeyUpEvents,
                 runtimeError, debugLogText, debugLogArray, inputKeysDown,
                 loopCount, playing, hostException, tapped, external, built,
                 frame, userGameStateArray, pointerPosition, hitAreas,
                 pointerVars, hostVars,
                 keysHeld>>

SetAdd(seq, x) ==
  IF \E i \in 1..Len(seq) : seq[i] = x THEN seq ELSE Append(seq, x)

RECURSIVE CollectCorsAssets(_, _, _)
CollectCorsAssets(objs, i, assets) ==
  IF i > Len(objs) THEN assets
  ELSE CollectCorsAssets(objs, i + 1,
                         IF objs[i].kind = "sprite" THEN SetAdd(assets, objs[i].url)
                                                    ELSE assets)

LoadImages(assets) == [i \in 1..Len(assets) |-> [type |-> "image", url |-> assets[i]]]

LoadAudio(clips) == [i \in 1..Len(clips) |-> [type |-> "audio", url |-> clips[i].url]]

Preload ==
  /\ status = "initialised"
  /\ status' = "preloaded"
  /\ corsAssets' = CollectCorsAssets(gameObjects, 1, corsAssets)
  /\ loadRequests' = loadRequests \o LoadImages(corsAssets') \o LoadAudio(audioClips)
  /\ UNCHANGED <<DEBUG, missingAudio, gameObjects, audioClips, phaserGameObjects,
                 phaserAudioClips, children, rerenderGameObjects,
                 delayedKeyUpEvents, runtimeError, debugLogText, debugLogArray,
                 inputKeysDown, loopCount, playing, hostException, tapped,
                 external, built, frame, userGameStateArray, pointerPosition,
                 hitAreas, pointerVars, hostVars,
                 keysHeld>>

\* ------------------------------------------------------------------------
\* create()
\* ------------------------------------------------------------------------
\* Variant: the handle is created at the origin.
CreateHandleAtOrigin(o) == NewHandle(o.kind, <<0, 0>>, o.text)

CreateHandle(o) == NewHandle(o.kind, o.position, o.text)

\* Variant: setInteractive() without a shape, i.e. the bounding rectangle.
HitAreaBoundingBox(o) ==
  IF ~o.hitboxActive THEN [shape |-> "none"]
  ELSE IF o.kind = "circle"
       THEN [shape |-> "rectangle", x |-> 0, y |-> 0,
             width |-> 2 * o.shape.radius, height |-> 2 * o.shape.radius]
  ELSE IF o.kind = "triangle"
       THEN [shape |-> "rectangle", x |-> 0, y |-> 0, width |-> 20, height |-> 20]
  ELSE [shape |-> "rectangle", x |-> 0, y |-> 0,
        width |-> o.shape.width, height |-> o.shape.height]

\* The hit area the handle is made interactive with: none when the hitbox is
\* off, Phaser's default rectangle for text, sprite and rectangle, an explicit
\* circle or triangle otherwise.
HitArea(o) ==
  IF ~o.hitboxActive THEN [shape |-> "none"]
  ELSE IF o.kind = "circle"
       THEN [shape |-> "circle", x |-> o.shape.radius, y |-> o.shape.radius,
             radius |-> o.shape.radius]
  ELSE IF o.kind = "triangle"
       THEN [shape |-> "triangle",
             x1 |-> o.shape.x1, y1 |-> o.shape.y1,
             x2 |-> o.shape.x2, y2 |-> o.shape.y2,
             x3 |-> o.shape.x3, y3 |-> o.shape.y3]
  ELSE [shape |-> "rectangle", x |-> 0, y |-> 0,
        width |-> o.shape.width, height |-> o.shape.height]

RECURSIVE CreateHitAreas(_, _, _)
CreateHitAreas(objs, i, areas) ==
  IF i > Len(objs) THEN areas
  ELSE CreateHitAreas(objs, i + 1, Append(areas, HitArea(objs[i])))

\* One iteration pushes a handle, looks it up again at index id and stores it
\* on the logical object.
RECURSIVE CreateGameObjects(_, _, _)
CreateGameObjects(objs, i, acc) ==
  IF i > Len(objs) THEN acc
  ELSE LET handles == Append(acc.handles, CreateHandle(objs[i]))
           ref == objs[i].id + 1
       IN CreateGameObjects(objs, i + 1,
            [objs |-> [acc.objs EXCEPT ![i].phaserGameObject = ref],
             handles |-> handles,
             children |-> Append(acc.children, Len(handles))])

\* this.sound.add throws for a key that is not in the audio cache; the throw
\* ends the forEach, so the handles pushed before it stay in the table.
RECURSIVE CreateAudioClips(_, _, _, _)
CreateAudioClips(clips, i, handles, missing) ==
  IF i > Len(clips) THEN [handles |-> handles, threw |-> FALSE]
  ELSE IF clips[i].url \in missing THEN [handles |-> handles, threw |-> TRUE]
  ELSE CreateAudioClips(clips, i + 1, Append(handles, [url |-> clips[i].url]), missing)

AudioCreateFault(err, log, threw) ==
  [err |-> err \/ threw,
   log |-> IF threw THEN Append(log, AudioLoadError) ELSE log]

SeedDebugLog(log, debug) == IF ~debug THEN <<>> ELSE log

Create ==
  /\ status = "preloaded"
  /\ LET objs == CreateGameObjects(gameObjects, 1,
                   [objs |-> gameObjects, handles |-> phaserGameObjects,
                    children |-> children])
         audio == CreateAudioClips(audioClips, 1, phaserAudioClips, missingAudio)
         fault == AudioCreateFault(runtimeError, debugLogArray, audio.threw)
         log == SeedDebugLog(fault.log, DEBUG)
     IN /\ gameObjects' = objs.objs
        /\ phaserGameObjects' = objs.handles
        /\ phaserAudioClips' = audio.handles
        /\ runtimeError' = fault.err
        /\ debugLogArray' = log
        /\ debugLogText' = [exists |-> TRUE, text |-> log, color |-> "white"]
        /\ children' = Append(objs.children, 0)
        /\ built' = gameObjects
        /\ hitAreas' = CreateHitAreas(gameObjects, 1, hitAreas)
  /\ status' = "running"
  /\ UNCHANGED <<DEBUG, missingAudio, audioClips, corsAssets, loadRequests,
                 rerenderGameObjects, delayedKeyUpEvents, inputKeysDown,
                 loopCount, playing, hostException, tapped, external, frame,
                 userGameStateArray, pointerPosition, pointerVars, hostVars,
                 keysHeld>>

\* ------------------------------------------------------------------------
\* Pointer listeners installed by create()
\* ------------------------------------------------------------------------
\* Phaser.Geom.Circle.Contains
CircleContains(c, x, y) ==
  /\ c.radius > 0
  /\ x >= c.x - c.radius /\ x <= c.x + c.radius
  /\ y >= c.y - c.radius /\ y <= c.y + c.radius
  /\ (c.x - x) * (c.x - x) + (c.y - y) * (c.y - y) <= c.radius * c.radius

\* Phaser.Geom.Rectangle.Contains
RectangleContains(r, x, y) ==
  /\ r.width > 0 /\ r.height > 0
  /\ r.x <= x /\ r.x + r.width >= x
  /\ r.y <= y /\ r.y + r.height >= y

\* Phaser.Geom.Triangle.Contains: barycentric coordinates u, v of the point
\* with u >= 0, v >= 0 and u + v < 1, written without the division by b.
TriangleContains(t, x, y) ==
  LET v0x == t.x3 - t.x1
      v0y == t.y3 - t.y1
      v1x == t.x2 - t.x1
      v1y == t.y2 - t.y1
      v2x == x - t.x1
      v2y == y - t.y1
      dot00 == v0x * v0x + v0y * v0y
      dot01 == v0x * v1x + v0y * v1y
      dot02 == v0x * v2x + v0y * v2y
      dot11 == v1x * v1x + v1y * v1y
      dot12 == v1x * v2x + v1y * v2y
      b == dot00 * dot11 - dot01 * dot01
      u == dot11 * dot02 - dot01 * dot12
      v == dot00 * dot12 - dot01 * dot02
  IN b > 0 /\ u >= 0 /\ v >= 0 /\ u + v < b

HitTest(area, x, y) ==
  IF area.shape = "circle" THEN CircleContains(area, x, y)
  ELSE IF area.shape = "triangle" THEN TriangleContains(area, x, y)
  ELSE IF area.shape = "rectangle" THEN RectangleContains(area, x, y)
  ELSE FALSE

OnPointerOver(over, id) == over \cup {id}

OnPointerOut(over, id) == over \ {id}

\* The pointer moves to the point (x, y) of the local space of handle i, with
\* no other handle in front of it there; the input plugin asks the hit area
\* and emits pointerover or pointerout on the handle.
PointerMove(i, x, y) ==
  /\ status = "running"
  /\ i \in 1..Len(phaserGameObjects)
  /\ LET hit == HitTest(hitAreas[i], x, y)
     IN /\ pointerOverGameObjectsId' =
             IF hit THEN OnPointerOver(pointerOverGameObjectsId, i - 1)
             ELSE OnPointerOut(pointerOverGameObjectsId, i - 1)
        /\ pointerEvent' = [target |-> i, x |-> x, y |-> y, hit |-> hit]
  /\ UNCHANGED <<status, DEBUG, missingAudio, gameObjects, audioClips,
                 phaserGameObjects, phaserAudioClips, corsAssets, loadRequests,
                 children, rerenderGameObjects, delayedKeyUpEvents, runtimeError,
                 debugLogText, debugLogArray, inputKeysDown, loopCount, playing,
                 hostException, tapped, external, built, frame,
                 userGameStateArray, pointerPosition, hitAreas, hostVars,
                 keysHeld>>

\* ------------------------------------------------------------------------
\* Keyboard listeners installed by create()
\* ------------------------------------------------------------------------
OnKeyDown(down, delayed, key) == [down |-> down \cup {key}, delayed |-> delayed]

\* Variant: the key-up listener deletes the key at once.
OnKeyUpImmediate(down, delayed, key) == [down |-> down \ {key}, delayed |-> delayed]

OnKeyUp(down, delayed, key) == [down |-> down, delayed |-> delayed \cup {key}]

KeyDown(k) ==
  /\ status = "running"
  /\ LET r == OnKeyDown(inputKeysDown, delayedKeyUpEvents, k)
     IN /\ inputKeysDown' = r.down
        /\ delayedKeyUpEvents' = r.delayed
  /\ tapped' = [tapped EXCEPT ![k] = IF @ = "idle" THEN "pressed" ELSE @]
  /\ keysHeld' = keysHeld \cup {k}
  /\ UNCHANGED <<status, DEBUG, missingAudio, gameObjects, audioClips,
                 phaserGameObjects, phaserAudioClips, corsAssets, loadRequests,
                 children, rerenderGameObjects, runtimeError, debugLogText,
                 debugLogArray, loopCount, playing, hostException, external,
                 built, frame, userGameStateArray, pointerPosition, hitAreas,
                 pointerVars, hostVars>>

\* A key-up event is delivered for a key that is physically down.
KeyUp(k) ==
  /\ status = "running"
  /\ k \in keysHeld
  /\ keysHeld' = keysHeld \ {k}
  /\ LET r == OnKeyUp(inputKeysDown, delayedKeyUpEvents, k)
     IN /\ inputKeysDown' = r.down
        /\ delayedKeyUpEvents' = r.delayed
  /\ tapped' = [tapped EXCEPT ![k] = IF @ = "pressed" THEN "tapped" ELSE @]
  /\ UNCHANGED <<status, DEBUG, missingAudio, gameObjects, audioClips,
                 phaserGameObjects, phaserAudioClips, corsAssets, loadRequests,
                 children, rerenderGameObjects, runtimeError, debugLogText,
                 debugLogArray, loopCount, playing, hostException, external,
                 built, frame, userGameStateArray, pointerPosition, hitAreas,
                 pointerVars, hostVars>>


\* ------------------------------------------------------------------------
\* update(): the user callback
\* ------------------------------------------------------------------------
\* What one invocation of userUpdateFunction does: at most one mutation of an
\* object or clip, optionally one new GameObject, optionally one debug line,
\* and then it either returns or throws.
Scripts(objs, clips) ==
  {[mutation |-> m, extra |-> "none", throws |-> t] :
      m \in Mutations(objs, clips), t \in BOOLEAN}
    \cup {[mutation |-> [type |-> "none", target |-> 0], extra |-> e, throws |-> t] :
            e \in {"create", "log"},
            t \in BOOLEAN}

IdleScripts ==
  {[mutation |-> [type |-> "none", target |-> 0], extra |-> "none", throws |-> t] :
      t \in BOOLEAN}

RunUserUpdate(objs, clips, log, script) ==
  [objs |-> IF script.extra = "create"
            THEN Append(objs, NewGameObject(Len(objs), "rectangle"))
            ELSE MutateObjects(objs, script.mutation),
   clips |-> MutateClips(clips, script.mutation),
   log |-> IF script.extra = "log" THEN Append(log, UserDebugLine) ELSE log]

\* Variant: the callback is invoked whatever the flag is.
CallsUserUpdateAlways(err) == TRUE

\* try { if (!this.runtimeError) userUpdateFunction(...) } catch { ... }
CallsUserUpdate(err) == ~err

\* Variant: the flag is assigned the outcome of the guarded call.
CatchUserFaultAssign(err, log, threw) ==
  [err |-> threw,
   log |-> IF threw THEN Append(log, UserUpdateError) ELSE log,
   escaped |-> FALSE]

\* Variant: no catch clause, the exception leaves update().
RethrowUserFault(err, log, threw) ==
  [err |-> err, log |-> log, escaped |-> threw]

CatchUserFault(err, log, threw) ==
  [err |-> err \/ threw,
   log |-> IF threw THEN Append(log, UserUpdateError) ELSE log,
   escaped |-> FALSE]

\* ------------------------------------------------------------------------
\* update(): per-object synchronisation
\* ------------------------------------------------------------------------
\* Variant: the transform branch looks at the dirty flag only.
OnlyWhenTransformDirty(o, rerender) == hasTransformUpdates(o)

\* Variant: the transform branch is taken in the force-resync frame only.
OnlyWhenRerender(o, rerender) == rerender

NeedsTransformUpdate(o, rerender) == hasTransformUpdates(o) \/ rerender

\* Variant: the render branch is taken whatever the flags are.
AlwaysNeedsUpdate(o, rerender) == TRUE

NeedsRenderUpdate(o, rerender) == hasRenderUpdates(o) \/ rerender

\* Rotation left on the handle by the transform branch.
TransformRotation(o) ==
  IF o.kind = "triangle"
  THEN o.rotation + (IF o.flip[2] THEN HalfTurn ELSE 0)
  ELSE o.rotation

\* Rotation pushed by the render branch, taken for every ShapeGameObject.
RenderRotation(o) == o.rotation + (IF o.flip[2] THEN HalfTurn ELSE 0)

ApplyTransform(o, h) ==
  [h EXCEPT !.position = o.position,
            !.rotation = TransformRotation(o),
            !.scale = o.scale]

TransformCalls(o) == IF o.kind = "triangle" THEN 4 ELSE 3

ApplyRender(o, h) ==
  LET intColor == GetColor32(o.color[1], o.color[2], o.color[3], o.color[4])
  IN IF o.kind = "text"
     THEN [h EXCEPT !.color = intColor, !.alpha = o.color[4], !.flip = o.flip,
                    !.text = o.text]
     ELSE IF o.kind = "sprite"
     THEN [h EXCEPT !.color = intColor, !.alpha = o.color[4], !.flip = o.flip]
     ELSE IF o.kind \in ShapeKinds
     THEN [h EXCEPT !.color = intColor, !.alpha = o.color[4],
                    !.rotation = RenderRotation(o)]
     ELSE h

RenderCalls(o) ==
  (IF o.kind = "text" THEN 4 ELSE IF o.kind = "sprite" THEN 3 ELSE 2)
    + (IF o.shouldBringToTop THEN 1 ELSE 0)

BringToTop(list, x) == SelectSeq(list, LAMBDA y : y # x) \o <<x>>

\* The else branch taken when this.phaserGameObjects[gameObject.id] is undefined.
\* Variant: the else branch does nothing.
MissingGameObjectSilent(err, log) == [err |-> err, log |-> log]

MissingGameObject(err, log) ==
  [err |-> TRUE, log |-> Append(log, GameObjectError)]

\* Record of one setRotation call: the value and the logical state it came from.
Pushed(path, value, o) ==
  [path |-> path, value |-> value, rotation |-> o.rotation, flipY |-> o.flip[2]]

\* One iteration of the forEach over sourceGameObjects.
SyncGameObject(acc, i, rerender) ==
  LET o == acc.objs[i]
      ref == o.id + 1
  IN IF ref <= Len(acc.handles)
     THEN LET doT == NeedsTransformUpdate(o, rerender)
              h1 == IF doT THEN ApplyTransform(o, acc.handles[ref]) ELSE acc.handles[ref]
              o1 == IF doT THEN updatedTransform(o) ELSE o
              doR == NeedsRenderUpdate(o1, rerender)
              h2 == IF doR THEN ApplyRender(o1, h1) ELSE h1
              o2 == IF doR THEN updatedRender(o1) ELSE o1
              n == (IF doT THEN TransformCalls(o) ELSE 0)
                     + (IF doR THEN RenderCalls(o1) ELSE 0)
              pushed == (IF doT THEN {Pushed("transform", o.rotation, o),
                                      Pushed("transform", TransformRotation(o), o)}
                                ELSE {})
                          \cup (IF doR /\ o.kind \in ShapeKinds
                                THEN {Pushed("render", RenderRotation(o1), o1)}
                                ELSE {})
          IN [acc EXCEPT !.objs[i] = o2,
                         !.handles[ref] = h2,
                         !.children = IF doR /\ o1.shouldBringToTop
                                      THEN BringToTop(@, ref) ELSE @,
                         !.calls = Append(@, n),
                         !.rotations = Append(@, pushed),
                         !.pushedT = IF doT THEN @ \cup {i} ELSE @,
                         !.pushedR = IF doR THEN @ \cup {i} ELSE @,
                         !.restacked = IF doR /\ o1.shouldBringToTop
                                       THEN @ \cup {i} ELSE @]
     ELSE LET f == MissingGameObject(acc.err, acc.log)
          IN [acc EXCEPT !.err = f.err, !.log = f.log,
                         !.missing = @ \cup {i},
                         !.calls = Append(@, 0),
                         !.rotations = Append(@, {})]

RECURSIVE SyncGameObjects(_, _, _)
SyncGameObjects(acc, i, rerender) ==
  IF i > Len(acc.objs) THEN acc
  ELSE SyncGameObjects(SyncGameObject(acc, i, rerender), i + 1, rerender)

\* ------------------------------------------------------------------------
\* update(): audio
\* ------------------------------------------------------------------------
\* Reading the clip's update flag consumes it.
hasAudioClipUpdates(c) == [value |-> c.dirty, clip |-> [c EXCEPT !.dirty = FALSE]]

\* Variant: the else branch of the audio loop does nothing.
MissingAudioClipSilent(err, log) == [err |-> err, log |-> log]

MissingAudioClip(err, log) ==
  [err |-> TRUE, log |-> Append(log, AudioUpdateError)]

SyncAudioClip(acc, i) ==
  LET q == hasAudioClipUpdates(acc.clips[i])
      c == q.clip
      ref == c.id + 1
  IN IF ~q.value THEN acc
     ELSE IF ref <= Len(acc.sounds)
     THEN IF c.shouldPlay
          THEN [acc EXCEPT !.clips[i] = c, !.playing = @ \cup {c.id},
                           !.plays = @ + 1, !.audio[i] = "play"]
          ELSE [acc EXCEPT !.clips[i] = c, !.playing = @ \ {c.id},
                           !.stops = @ + 1, !.audio[i] = "stop"]
     ELSE LET f == MissingAudioClip(acc.err, acc.log)
          IN [acc EXCEPT !.clips[i] = c, !.err = f.err, !.log = f.log,
                         !.audio[i] = "missing"]

RECURSIVE SyncAudioClips(_, _)
SyncAudioClips(acc, i) ==
  IF i > Len(acc.clips) THEN acc
  ELSE SyncAudioClips(SyncAudioClip(acc, i), i + 1)

\* ------------------------------------------------------------------------
\* update(): deferred key-ups and the debug overlay
\* ------------------------------------------------------------------------
FlushKeyUps(down, delayed) == [down |-> down \ delayed, delayed |-> {}]

\* this.scene.pause() on the error branch: a paused scene gets no more update().
\* Variant: the error branch does not pause the scene.
NeverPauses(err) == FALSE

PausesScene(err) == err

\* Variant: the log is emptied on the error branch too.
RefreshDebugAlwaysClear(acc) ==
  IF ~acc.text.exists THEN acc
  ELSE LET shown == [acc EXCEPT !.text.text = acc.log,
                                !.children = BringToTop(@, 0)]
       IN IF acc.err
          THEN [shown EXCEPT !.text.color = "orange",
                             !.playing = {},
                             !.paused = PausesScene(acc.err),
                             !.log = <<>>]
          ELSE [shown EXCEPT !.log = <<>>]

\* Variant: the error branch does not call this.sound.stopAll().
RefreshDebugNoStop(acc) ==
  IF ~acc.text.exists THEN acc
  ELSE LET shown == [acc EXCEPT !.text.text = acc.log,
                                !.children = BringToTop(@, 0)]
       IN IF acc.err
          THEN [shown EXCEPT !.text.color = "orange",
                             !.paused = PausesScene(acc.err)]
          ELSE [shown EXCEPT !.log = <<>>]

\* Variant: the overlay text is not brought to the top.
RefreshDebugNoRestack(acc) ==
  IF ~acc.text.exists THEN acc
  ELSE LET shown == [acc EXCEPT !.text.text = acc.log]
       IN IF acc.err
          THEN [shown EXCEPT !.text.color = "orange",
                             !.playing = {},
                             !.paused = PausesScene(acc.err)]
          ELSE [shown EXCEPT !.log = <<>>]

RefreshDebug(acc) ==
  IF ~acc.text.exists THEN acc
  ELSE LET shown == [acc EXCEPT !.text.text = acc.log,
                                !.children = BringToTop(@, 0)]
       IN IF acc.err
          THEN [shown EXCEPT !.text.color = "orange",
                             !.playing = {},
                             !.paused = PausesScene(acc.err)]
          ELSE [shown EXCEPT !.log = <<>>]


\* ------------------------------------------------------------------------
\* update()
\* ------------------------------------------------------------------------
Frame(scripts) ==
  /\ status = "running"
  /\ loopCount < MaxFrames
  /\ \E script \in scripts :
       LET called == CallsUserUpdate(runtimeError)
           user == IF called
                   THEN RunUserUpdate(gameObjects, audioClips, debugLogArray, script)
                   ELSE [objs |-> gameObjects, clips |-> audioClips,
                         log |-> debugLogArray]
           sampled == SamplePointer(ActivePointer)
           threw == called /\ script.throws
           fault == CatchUserFault(runtimeError, user.log, threw)
           acc0 == [objs |-> user.objs, clips |-> user.clips,
                    handles |-> phaserGameObjects, sounds |-> phaserAudioClips,
                    log |-> fault.log, err |-> fault.err, children |-> children,
                    calls |-> <<>>, rotations |-> <<>>, missing |-> {},
                    pushedT |-> {}, pushedR |-> {}, restacked |-> {},
                    audio |-> [i \in 1..Len(user.clips) |-> "none"],
                    playing |-> playing, plays |-> 0, stops |-> 0,
                    text |-> debugLogText, paused |-> FALSE]
           acc1 == SyncGameObjects(acc0, 1, rerenderGameObjects)
           acc2 == SyncAudioClips(acc1, 1)
           keys == FlushKeyUps(inputKeysDown, delayedKeyUpEvents)
           acc3 == RefreshDebug(acc2)
           seen == [userCalled |-> called, userThrew |-> threw,
                    keysSeen |-> IF called THEN inputKeysDown ELSE {},
                    tapped |-> {k \in Keys : tapped[k] = "tapped"},
                    startError |-> runtimeError,
                    startRerender |-> rerenderGameObjects,
                    dirtyT |-> {i \in 1..Len(user.objs) : user.objs[i].transformDirty},
                    dirtyR |-> {i \in 1..Len(user.objs) : user.objs[i].renderDirty},
                    dirtyA |-> {i \in 1..Len(user.clips) : user.clips[i].dirty},
                    loopSeen |-> IF called THEN loopCount + 1 ELSE 0,
                    pointerSeen |-> IF called THEN sampled ELSE <<0, 0>>,
                    stateSeen |-> IF called THEN userGameStateArray ELSE <<>>]
       IN /\ pointerPosition' = sampled
          /\ userGameStateArray' =
               IF called
               THEN UserStateAfter(userGameStateArray, loopCount + 1, sampled)
               ELSE userGameStateArray
          /\ IF fault.escaped
             THEN \* the exception leaves update() before the object loop
                  /\ gameObjects' = user.objs
                  /\ audioClips' = user.clips
                  /\ debugLogArray' = fault.log
                  /\ runtimeError' = fault.err
                  /\ hostException' = TRUE
                  /\ frame' = seen @@ [calls |-> <<>>, rotations |-> <<>>,
                                       missing |-> {}, plays |-> 0, stops |-> 0,
                                       pushedT |-> {}, pushedR |-> {},
                                       restacked |-> {}, audio |-> <<>>,
                                       completed |-> FALSE]
                  /\ UNCHANGED <<status, phaserGameObjects, children, playing,
                                 inputKeysDown, delayedKeyUpEvents,
                                 rerenderGameObjects, debugLogText>>
             ELSE /\ gameObjects' = acc3.objs
                  /\ audioClips' = acc3.clips
                  /\ phaserGameObjects' = acc3.handles
                  /\ children' = acc3.children
                  /\ playing' = acc3.playing
                  /\ debugLogArray' = acc3.log
                  /\ debugLogText' = acc3.text
                  /\ runtimeError' = acc3.err
                  /\ status' = IF acc3.paused THEN "paused" ELSE status
                  /\ inputKeysDown' = keys.down
                  /\ delayedKeyUpEvents' = keys.delayed
                  /\ rerenderGameObjects' = FALSE
                  /\ hostException' = hostException
                  /\ frame' = seen @@ [calls |-> acc3.calls, rotations |-> acc3.rotations,
                                       missing |-> acc3.missing, plays |-> acc3.plays,
                                       stops |-> acc3.stops, pushedT |-> acc3.pushedT,
                                       pushedR |-> acc3.pushedR,
                                       restacked |-> acc3.restacked,
                                       audio |-> acc3.audio, completed |-> TRUE]
  /\ loopCount' = loopCount + 1
  /\ tapped' = [k \in Keys |-> "idle"]
  /\ UNCHANGED <<DEBUG, missingAudio, phaserAudioClips, corsAssets, loadRequests,
                 external, built, hitAreas, pointerVars, hostVars, keysHeld>>

\* A frame whose callback may do anything a user program can do.
Update == Frame(Scripts(gameObjects, audioClips))

\* A frame whose callback only reads the input state, and returns or throws.
UpdateIdle == Frame(IdleScripts)

\* ------------------------------------------------------------------------
\* Mutation of the logical model from outside the update callback
\* ------------------------------------------------------------------------
\* Until the fault flag is set the callback makes the mutations (Update); once
\* it is set the callback is no longer called, and a mutation of an object or
\* clip can only come from outside it.
MutateAfterFault ==
  /\ status \in {"running", "paused"}
  /\ runtimeError
  /\ external < MaxExternal
  /\ \E m \in Mutations(gameObjects, audioClips) :
       /\ m.type # "none"
       /\ gameObjects' = MutateObjects(gameObjects, m)
       /\ audioClips' = MutateClips(audioClips, m)
  /\ external' = external + 1
  /\ UNCHANGED <<status, DEBUG, missingAudio, phaserGameObjects, phaserAudioClips,
                 corsAssets, loadRequests, children, rerenderGameObjects,
                 delayedKeyUpEvents, runtimeError, debugLogText, debugLogArray,
                 inputKeysDown, loopCount, playing, hostException, tapped, built,
                 frame, userGameStateArray, pointerPosition, hitAreas,
                 pointerVars, hostVars,
                 keysHeld>>

\* The scene driven by a user program, with no keyboard input.
Next ==
  \/ SceneInit
  \/ Preload
  \/ Create
  \/ Update
  \/ MutateAfterFault

Spec == Init /\ [][Next]_vars

\* The scene driven by the keyboard, with a callback that leaves the objects
\* and clips alone.
NextInput ==
  \/ SceneInit
  \/ Preload
  \/ Create
  \/ UpdateIdle
  \/ \E k \in Keys : KeyDown(k)
  \/ \E k \in Keys : KeyUp(k)

SpecInput == Init /\ [][NextInput]_vars

\* ------------------------------------------------------------------------
\* The pointer: scene lifecycle and pointer moves over the built scene
\* ------------------------------------------------------------------------
NextPointer ==
  \/ SceneInit
  \/ Preload
  \/ Create
  \/ \E i \in 1..Len(phaserGameObjects), x \in LocalCoordinates, y \in LocalCoordinates :
       PointerMove(i, x, y)

\* A scene whose audio files all load, with DEBUG off.
InitPointer == Init /\ DEBUG = FALSE /\ missingAudio = {}

SpecPointer == InitPointer /\ [][NextPointer]_vars

\* ------------------------------------------------------------------------
\* The tab: GameCanvas mounts and unmounts around the scene
\* ------------------------------------------------------------------------
toSpawn(config) == config

\* componentDidMount; tabActive is false when the tab panel is aria-hidden.
Mount(tabActive) ==
  /\ toSpawn(gameConfig)
  /\ ~mounted
  /\ mounted' = TRUE
  /\ IF ~tabActive \/ loadedGame
     THEN /\ stateGame' = FALSE
          /\ UNCHANGED <<status, loadedGame, games>>
     ELSE /\ stateGame' = TRUE
          /\ loadedGame' = TRUE
          /\ games' = games + 1
          /\ status' = "constructed"
  /\ UNCHANGED <<DEBUG, missingAudio, gameObjects, audioClips, phaserGameObjects,
                 phaserAudioClips, corsAssets, loadRequests, children,
                 rerenderGameObjects, delayedKeyUpEvents, runtimeError,
                 debugLogText, debugLogArray, inputKeysDown, loopCount, playing,
                 hostException, tapped, external, built, frame,
                 userGameStateArray, pointerPosition, hitAreas, pointerVars,
                 gameConfig, tornDown,
                 keysHeld>>

\* componentWillUnmount: this.state.game?.sound.stopAll() and nothing else.
Unmount ==
  /\ mounted
  /\ mounted' = FALSE
  /\ stateGame' = FALSE
  /\ playing' = IF stateGame THEN {} ELSE playing
  /\ tornDown' = (tornDown \/ stateGame)
  /\ UNCHANGED <<status, DEBUG, missingAudio, gameObjects, audioClips,
                 phaserGameObjects, phaserAudioClips, corsAssets, loadRequests,
                 children, rerenderGameObjects, delayedKeyUpEvents, runtimeError,
                 debugLogText, debugLogArray, inputKeysDown, loopCount,
                 hostException, tapped, external, built, frame,
                 userGameStateArray, pointerPosition, hitAreas, pointerVars,
                 gameConfig, loadedGame, games,
                 keysHeld>>

\* Before the tab is shown: no component, no game.
InitHost ==
  /\ SceneFields
  /\ status = "none"
  /\ gameConfig \in BOOLEAN
  /\ loadedGame = FALSE
  /\ mounted = FALSE
  /\ stateGame = FALSE
  /\ games = 0

NextHost ==
  \/ \E tabActive \in BOOLEAN : Mount(tabActive)
  \/ Unmount
  \/ SceneInit
  \/ Preload
  \/ Create
  \/ UpdateIdle
  \/ \E k \in Keys : KeyDown(k)
  \/ \E k \in Keys : KeyUp(k)

SpecHost == InitHost /\ [][NextHost]_vars


\* ------------------------------------------------------------------------
\* Properties
\* ------------------------------------------------------------------------
Count(log, line) == Cardinality({i \in 1..Len(log) : log[i] = line})

IsFrame == loopCount' = loopCount + 1

Created == status \in {"running", "paused"}

HasHandle(i) == gameObjects[i].id + 1 <= Len(phaserGameObjects)

\* C1: the fault flag is monotonic: no step of the scene takes runtimeError
\* from true back to false.
FaultFlagMonotonic == [][runtimeError => runtimeError']_vars

\* C1 witness: a frame started with the flag set (by create) and ended with it set.
FaultFlagKeptWitness == frame.completed /\ frame.startError /\ runtimeError

\* C2: a key pressed and then released since the previous frame is in
\* inputKeysDown when this frame's callback runs, and is not in inputKeysDown
\* when the frame ends.
TapSeenThenRemoved ==
  [][IsFrame =>
       \A k \in Keys :
         tapped[k] = "tapped" =>
           /\ frame'.userCalled => k \in frame'.keysSeen
           /\ k \notin inputKeysDown']_vars

\* C2 witness: the callback of the last frame ran and saw a tapped key, which
\* is gone at the end of that frame.
TapSeenWitness ==
  /\ frame.userCalled
  /\ frame.tapped # {}
  /\ frame.tapped \subseteq frame.keysSeen
  /\ frame.tapped \cap inputKeysDown = {}

\* C3 (as claimed): a rotation that includes the half-turn correction is pushed
\* only to a triangle whose vertical flip is set, on either path.
HalfTurnOnlyForFlippedTriangle ==
  \A i \in 1..Len(frame.rotations) :
    \A p \in frame.rotations[i] :
      p.value = p.rotation + HalfTurn =>
        gameObjects[i].kind = "triangle" /\ p.flipY

\* C4: without force-resync, an object that has a handle and whose two dirty
\* flags are false when the frame synchronises it gets no backend call, its
\* handle is unchanged and its flags are still false.
CleanObjectUntouched ==
  [][(IsFrame /\ frame'.completed /\ ~rerenderGameObjects) =>
       \A i \in 1..Len(gameObjects') :
         (/\ gameObjects'[i].id + 1 <= Len(phaserGameObjects)
          /\ i \notin frame'.dirtyT
          /\ i \notin frame'.dirtyR) =>
           /\ frame'.calls[i] = 0
           /\ phaserGameObjects'[gameObjects'[i].id + 1]
                = phaserGameObjects[gameObjects'[i].id + 1]
           /\ ~gameObjects'[i].transformDirty
           /\ ~gameObjects'[i].renderDirty]_vars

\* C4 witness: a later frame left a clean object alone while it pushed another.
CleanObjectWitness ==
  /\ frame.completed
  /\ ~frame.startRerender
  /\ \E i \in 1..Len(frame.calls) :
       /\ HasHandle(i)
       /\ i \notin frame.dirtyT \cup frame.dirtyR
       /\ frame.calls[i] = 0
  /\ \E j \in 1..Len(frame.calls) : frame.calls[j] > 0

\* C5: once a frame has ended with the fault flag set, the callback is not
\* invoked again and no backend handle (object, draw order, sound) changes,
\* whatever is marked dirty afterwards.
FrozenAfterFaultFrame ==
  [][(runtimeError /\ loopCount > 0) =>
       /\ phaserGameObjects' = phaserGameObjects
       /\ children' = children
       /\ playing' = playing
       /\ IsFrame => (~frame'.userCalled /\ frame'.plays = 0 /\ frame'.stops = 0)]_vars

\* C5 witness: after the fault frame an object or clip was marked dirty and
\* stays so.
DirtyAfterFaultWitness ==
  /\ runtimeError
  /\ loopCount > 0
  /\ external > 0
  /\ \/ \E i \in 1..Len(gameObjects) :
          HasHandle(i) /\ (gameObjects[i].transformDirty \/ gameObjects[i].renderDirty)
     \/ \E i \in 1..Len(audioClips) : audioClips[i].dirty

\* C6 (as claimed): in a frame (after the first) whose callback throws, no
\* object handle changes and no play call is issued.
NoDispatchInFaultFrame ==
  [][(IsFrame /\ ~rerenderGameObjects /\ frame'.userThrew) =>
       /\ phaserGameObjects' = phaserGameObjects
       /\ frame'.plays = 0]_vars

\* C7: a frame whose callback throws runs to its end, adds the user-update
\* error line exactly once, sets the fault flag, and lets no exception out.
UserFaultContained ==
  [][(IsFrame /\ frame'.userThrew) =>
       /\ frame'.completed
       /\ ~rerenderGameObjects'
       /\ delayedKeyUpEvents' = {}
       /\ debugLogText'.text = debugLogArray'
       /\ Count(debugLogArray', UserUpdateError)
            = Count(debugLogArray, UserUpdateError) + 1
       /\ runtimeError'
       /\ ~hostException']_vars

\* C7 witness: the last frame's callback threw and the frame completed.
UserFaultWitness ==
  /\ frame.userThrew
  /\ frame.completed
  /\ runtimeError
  /\ Count(debugLogArray, UserUpdateError) = 1

\* C8: a frame that meets objects without a handle sets the fault flag, logs
\* the GameObject error once per such object, makes no backend call for them,
\* leaves their dirty flags as they were, raises no exception, and still
\* synchronises the objects that have a handle.
MissingHandleContained ==
  [][(IsFrame /\ frame'.missing # {}) =>
       /\ runtimeError'
       /\ ~hostException'
       /\ frame'.completed
       /\ Count(debugLogArray', GameObjectError)
            = Count(debugLogArray, GameObjectError) + Cardinality(frame'.missing)
       /\ \A i \in frame'.missing :
            /\ frame'.calls[i] = 0
            /\ gameObjects'[i].transformDirty = (i \in frame'.dirtyT)
            /\ gameObjects'[i].renderDirty = (i \in frame'.dirtyR)
       /\ \A j \in (1..Len(gameObjects')) \ frame'.missing :
            /\ ~gameObjects'[j].transformDirty
            /\ ~gameObjects'[j].renderDirty
            /\ (j \in frame'.dirtyT \cup frame'.dirtyR \/ rerenderGameObjects)
                 => frame'.calls[j] > 0]_vars

\* C8 witness: the last frame met an object without a handle, with its dirty
\* flags set, and pushed another object.
MissingHandleWitness ==
  /\ runtimeError
  /\ \E i \in frame.missing :
       gameObjects[i].transformDirty /\ gameObjects[i].renderDirty
  /\ \E j \in 1..Len(frame.calls) : frame.calls[j] > 0
  /\ Count(debugLogArray, GameObjectError) = 1

AudioBuildFailed == Created /\ Len(phaserAudioClips) < Len(audioClips)

\* C9 (as claimed): when only the construction of the sound handles failed
\* during build, the first frame still invokes the callback and does not
\* pause the scene.
AudioFailureKeepsRendering ==
  (AudioBuildFailed /\ loopCount = 1 /\ frame.missing = {}) =>
    (frame.userCalled /\ status = "running")

\* C10 (as claimed): right after build every handle's transform and render
\* state equal the build-time state of its object.
HandleMatchesBuildState ==
  (status = "running" /\ loopCount = 0) =>
    \A i \in 1..Len(built) :
      LET h == phaserGameObjects[i]
          o == built[i]
      IN /\ h.position = o.position
         /\ h.rotation = o.rotation
         /\ h.scale = o.scale
         /\ h.color = GetColor32(o.color[1], o.color[2], o.color[3], o.color[4])
         /\ h.alpha = o.color[4]
         /\ h.flip = o.flip

\* C10 (amended): after build every object of the build-time sequence is bound
\* to the handle at index id, of its own kind, one handle per object, for good;
\* right after build that handle has the object's build-time position, and the
\* backend's default rotation, scale, colour, alpha and flip.
HandleBoundAtBuildPosition ==
  Created =>
    /\ Len(phaserGameObjects) = Len(built)
    /\ \A i \in 1..Len(built) :
         /\ built[i].id + 1 = i
         /\ gameObjects[i].phaserGameObject = i
         /\ phaserGameObjects[i].kind = built[i].kind
         /\ loopCount = 0 =>
              /\ phaserGameObjects[i].position = built[i].position
              /\ phaserGameObjects[i].rotation = 0
              /\ phaserGameObjects[i].scale = <<1, 1>>
              /\ phaserGameObjects[i].color = <<0, 255, 255, 255>>
              /\ phaserGameObjects[i].alpha = 255
              /\ phaserGameObjects[i].flip = <<FALSE, FALSE>>

\* C10 witness: a scene of two objects has just been built.
BuiltTwoObjectsWitness ==
  /\ status = "running"
  /\ loopCount = 0
  /\ Len(built) = 2
  /\ built[1].rotation # 0


\* ------------------------------------------------------------------------
\* Preload, force-resync, debug log, audio, draw order
\* ------------------------------------------------------------------------
Urls == {"img", "snd", "other"}

Requests(url) == Cardinality({i \in 1..Len(loadRequests) : loadRequests[i].url = url})

Referenced(url) ==
  \/ \E i \in 1..Len(gameObjects) :
       gameObjects[i].kind = "sprite" /\ gameObjects[i].url = url
  \/ \E i \in 1..Len(audioClips) : audioClips[i].url = url

\* C11 (as claimed): after preload, a URL referenced by a sprite or a clip has
\* exactly one load request and any other URL has none.
OneLoadRequestPerUrl ==
  status = "preloaded" =>
    \A url \in Urls : Requests(url) = (IF Referenced(url) THEN 1 ELSE 0)

\* C12: rerenderGameObjects is true exactly until the first frame ends; that
\* frame pushes transform and render of every object that has a handle,
\* whatever its flags; no step sets the flag back to true.
ForceResyncOneShot ==
  [][/\ rerenderGameObjects' => rerenderGameObjects
     /\ IsFrame =>
          /\ rerenderGameObjects <=> loopCount = 0
          /\ frame'.completed => ~rerenderGameObjects'
          /\ (rerenderGameObjects /\ frame'.completed) =>
               \A i \in 1..Len(gameObjects') :
                 gameObjects'[i].id + 1 <= Len(phaserGameObjects) =>
                   i \in frame'.pushedT \cap frame'.pushedR]_vars

\* C12 witness: the first frame pushed an object whose flags were both clear.
ForcedPaintWitness ==
  /\ loopCount = 1
  /\ frame.completed
  /\ frame.startRerender
  /\ ~rerenderGameObjects
  /\ \E i \in frame.pushedT \cap frame.pushedR : i \notin frame.dirtyT \cup frame.dirtyR

IsPrefix(a, b) == Len(a) <= Len(b) /\ \A i \in 1..Len(a) : a[i] = b[i]

\* C13: a frame that ends with the fault flag unset leaves the debug log
\* empty; a frame that ends with it set keeps the lines logged so far, and
\* nothing empties the log afterwards.
LogFrameScopedUnlessFault ==
  [][/\ (IsFrame /\ frame'.completed /\ ~runtimeError') => debugLogArray' = <<>>
     /\ (IsFrame /\ frame'.completed /\ runtimeError') =>
          IsPrefix(debugLogArray, debugLogArray')
     /\ (runtimeError /\ loopCount > 0) => debugLogArray' = debugLogArray]_vars

\* C13 witness: a frame logged a user line, faulted, and both lines are kept.
LogKeptWitness ==
  /\ runtimeError
  /\ frame.completed
  /\ debugLogArray = <<UserDebugLine, UserUpdateError>>

SilentAndPausedAfterFault ==
  (runtimeError /\ loopCount > 0) => (playing = {} /\ status = "paused")

\* C15 witness: the frame that faulted had started a clip.
PlayThenFaultWitness ==
  /\ runtimeError
  /\ frame.completed
  /\ frame.plays > 0
  /\ playing = {}

Below(list, i, j) ==
  \E a, b \in 1..Len(list) : a < b /\ list[a] = i /\ list[b] = j

\* C20: after every frame the overlay text is the last (frontmost) element of
\* the display list, and only objects whose render branch ran were restacked.
OverlayFrontmost ==
  [][(IsFrame /\ frame'.completed) =>
       /\ children'[Len(children')] = 0
       /\ Len(children') = Len(children)
       /\ frame'.restacked \subseteq frame'.pushedR
       /\ \A i, j \in 1..Len(phaserGameObjects) \ frame'.restacked :
            Below(children, i, j) => Below(children', i, j)]_vars

\* C20 witness: the first object was restacked above the second, and the
\* overlay is still in front of both.
RestackedBelowOverlayWitness ==
  /\ frame.completed
  /\ frame.restacked = {1}
  /\ children = <<2, 1, 0>>


\* ------------------------------------------------------------------------
\* Hit areas, input state, the tab, the user callback
\* ------------------------------------------------------------------------
IsCircle(i) ==
  /\ i \in 1..Len(hitAreas)
  /\ gameObjects[i].kind = "circle"
  /\ gameObjects[i].hitboxActive

InDisc(cx, cy, r, x, y) == (x - cx) * (x - cx) + (y - cy) * (y - cy) <= r * r

\* C16 (as claimed): a pointer at local point (10, 10) of a circle of radius 10
\* with an active hitbox is rejected.
CircleRejectsTenTen ==
  (/\ IsCircle(pointerEvent.target)
   /\ gameObjects[pointerEvent.target].shape.radius = 10
   /\ pointerEvent.x = 10
   /\ pointerEvent.y = 10) => ~pointerEvent.hit

\* C16 (amended): for a circle of radius r with an active hitbox a pointer at
\* local point (x, y) is accepted exactly when (x, y) lies in the disc of
\* radius r centred at (r, r), and the object is hovered exactly when the last
\* point was accepted; so the centre (r, r) is accepted and the corners (0, 0)
\* and (2r, 2r) of the bounding square are rejected.
CircleHitAreaIsDisc ==
  IsCircle(pointerEvent.target) =>
    LET r == gameObjects[pointerEvent.target].shape.radius
    IN /\ pointerEvent.hit <=> InDisc(r, r, r, pointerEvent.x, pointerEvent.y)
       /\ pointerEvent.hit <=> (pointerEvent.target - 1 \in pointerOverGameObjectsId)

\* C16 witness: the pointer is at the corner (0, 0) of the bounding square of a
\* circle of radius 10 and the circle is not hovered.
CornerRejectedWitness ==
  /\ IsCircle(pointerEvent.target)
  /\ gameObjects[pointerEvent.target].shape.radius = 10
  /\ pointerEvent.x = 0
  /\ pointerEvent.y = 0
  /\ ~pointerEvent.hit
  /\ pointerOverGameObjectsId = {}

\* The step in which the component that owns the game is unmounted.
IsTeardown == stateGame /\ ~stateGame'

\* C17 (as claimed): the set of keys held down and the set of hovered object
\* ids are empty when a scene instance is created, and the teardown of the
\* instance leaves them empty.
InputStateSceneScoped ==
  /\ [](status = "constructed" =>
         (inputKeysDown = {} /\ pointerOverGameObjectsId = {}))
  /\ [][IsTeardown =>
         (inputKeysDown' = {} /\ pointerOverGameObjectsId' = {})]_vars

\* C18 (as claimed): at most one game exists, it is constructed only with a
\* configuration present and no game loaded; the teardown leaves no playing
\* sound and no backend handle, and a torn down game runs no further frame.
TornDownGameReleased ==
  /\ [](games <= 1 /\ (games = 1 => gameConfig))
  /\ [][games' # games => (gameConfig /\ ~loadedGame)]_vars
  /\ [][IsTeardown =>
         /\ playing' = {}
         /\ phaserGameObjects' = <<>>
         /\ phaserAudioClips' = <<>>]_vars
  /\ [][tornDown => ~IsFrame]_vars

\* C19: a frame that starts with the fault flag unset invokes the callback
\* exactly once, with the loop counter already advanced and the pointer
\* already sampled, on the one state array that every invocation shares, and
\* before the objects and clips are synchronised; a frame that starts with
\* the flag set does not invoke it.
CallbackOncePerCleanFrame ==
  [][IsFrame =>
       /\ frame'.userCalled <=> ~runtimeError
       /\ runtimeError => userGameStateArray' = userGameStateArray
       /\ ~runtimeError =>
            /\ frame'.stateSeen = userGameStateArray
            /\ frame'.loopSeen = loopCount'
            /\ frame'.pointerSeen = pointerPosition'
            /\ userGameStateArray' =
                 Append(userGameStateArray,
                        [loop |-> loopCount', pointer |-> pointerPosition'])
       /\ (frame'.completed /\ ~runtimeError) =>
            /\ \A i \in 1..Len(gameObjects') :
                 gameObjects'[i].id + 1 <= Len(phaserGameObjects) =>
                   (~gameObjects'[i].transformDirty /\ ~gameObjects'[i].renderDirty)
            /\ \A i \in 1..Len(audioClips') : ~audioClips'[i].dirty]_vars

\* C19 witness: the second invocation received the array the first one had
\* written to, and the object it moved was pushed in the same frame.
SecondInvocationWitness ==
  /\ loopCount = 2
  /\ frame.userCalled
  /\ frame.completed
  /\ Len(frame.stateSeen) = 1
  /\ frame.stateSeen[1].loop = 1
  /\ Len(userGameStateArray) = 2
  /\ frame.dirtyT # {}
  /\ frame.dirtyT \subseteq frame.pushedT


\* ------------------------------------------------------------------------
\* Held keys, rotation paths, pending updates, visibility of faults
\* ------------------------------------------------------------------------
\* C21 (as claimed): a key whose most recent event before a frame is a
\* key-down is in inputKeysDown when that frame has flushed the deferred
\* key-ups.
HeldKeySurvivesFlush ==
  [][(IsFrame /\ frame'.completed) => keysHeld \subseteq inputKeysDown']_vars

SameLogicalRotation(a, b) ==
  a.kind = b.kind /\ a.rotation = b.rotation /\ a.flip = b.flip

\* C22 (as claimed): the rotation a handle holds at the end of a frame depends
\* only on the kind, rotation and flip of its object: when two consecutive
\* frames end with the same logical rotation state of an object, they end with
\* the same handle rotation, whichever dirty flag caused the pushes.
RotationIndependentOfPath ==
  [][(IsFrame /\ frame.completed /\ frame'.completed) =>
       \A i \in 1..Len(gameObjects) :
         (/\ gameObjects[i].id + 1 <= Len(phaserGameObjects)
          /\ SameLogicalRotation(gameObjects[i], gameObjects'[i])) =>
           phaserGameObjects'[gameObjects[i].id + 1].rotation
             = phaserGameObjects[gameObjects[i].id + 1].rotation]_vars

\* C23: when a frame has run to its end every object that has a handle has
\* both dirty flags false and its handle has the object's position and scale,
\* a change made by this frame's callback included.
NoUpdatePending ==
  [][(IsFrame /\ frame'.completed) =>
       \A i \in 1..Len(gameObjects') :
         gameObjects'[i].id + 1 <= Len(phaserGameObjects') =>
           LET o == gameObjects'[i]
               h == phaserGameObjects'[o.id + 1]
           IN /\ ~o.transformDirty
              /\ ~o.renderDirty
              /\ h.position = o.position
              /\ h.scale = o.scale]_vars

\* C23 witness: the callback of the second frame moved an object, and at the
\* end of that frame the handle is at the new position with no flag left set.
MovedInSameFrameWitness ==
  /\ loopCount = 2
  /\ frame.completed
  /\ frame.userCalled
  /\ \E i \in frame.dirtyT :
       /\ gameObjects[i].position = <<3, 4>>
       /\ phaserGameObjects[gameObjects[i].id + 1].position = <<3, 4>>
       /\ ~gameObjects[i].transformDirty

RuntimeErrorLines ==
  {UserUpdateError, GameObjectError, AudioUpdateError, AudioLoadError}

\* C24 (as claimed): when a frame ends with the fault flag set, the text shown
\* by the debug overlay contains at least one "Runtime Error" line.
EveryFaultVisible ==
  [][(IsFrame /\ frame'.completed /\ runtimeError') =>
       \E n \in 1..Len(debugLogText'.text) :
         debugLogText'.text[n] \in RuntimeErrorLines]_vars

====
